---- MODULE Spec2Model ----
(***************************************************************************)
(* json-version-control: a JSON document kept as a chain of forward diffs. *)
(* The model covers both classes of the repository: the blocking           *)
(* VersionControl and the suspending VersionControlAsync.  The persisted   *)
(* state is three things on disk: the source file (Document Snapshot),     *)
(* the head file (Head Pointer) and the history directory (one diff file   *)
(* per Version Record).                                                    *)
(***************************************************************************)
EXTENDS Integers, Sequences, FiniteSets, TLC

(***************************************************************************)
(* Bounds of the model.                                                    *)
(***************************************************************************)
\* Date.now() is read from FirstClock..MaxClock.  The clock starts at the
\* last one-digit value, so that identifiers of one and of two digits occur.
MaxClock == 11
\* saveNewVersion mints at most MaxSaves identifiers in a run.
MaxSaves == 3
\* At most MaxCalls calls of the suspending class are started step by step.
MaxCalls == 2

\* JSON documents are flat objects over Keys with primitive values in Vals.
Keys == {"a", "b"}
Vals == {1, 2}
\* marks a property the object does not have
Absent == 0
Doc == [Keys -> Vals \cup {Absent}]
EmptyObject == [k \in Keys |-> Absent]
Object(a, b) == [k \in Keys |-> IF k = "a" THEN a ELSE b]
\* the documents a caller saves: {a:1}, {a:1,b:2}, {a:2,b:2}
Targets == {Object(1, Absent), Object(1, 2), Object(2, 2)}

(***************************************************************************)
(* JavaScript values.                                                      *)
(***************************************************************************)
\* null where an object is expected
Null == [null |-> TRUE]
\* a path at which no file exists
Missing == [missing |-> TRUE]
\* Strings are sequences of characters.  null where a string is expected
\* is the empty sequence: both are falsy and no string the program builds
\* is empty.
NullStr == <<>>
Digits == <<"0", "1", "2", "3", "4", "5", "6", "7", "8", "9">>
IsDigit(c) == \E i \in 1..Len(Digits) : Digits[i] = c
DigitVal(c) == (CHOOSE i \in 1..Len(Digits) : Digits[i] = c) - 1

\* String(n) for a non-negative integer: its decimal digits
RECURSIVE String(_)
String(n) ==
  IF n < 10 THEN <<Digits[n + 1]>>
  ELSE String(n \div 10) \o <<Digits[(n % 10) + 1]>>

\* Number(s) for a string of digits, as the comparator's a - b coerces it
RECURSIVE ToNumber(_)
ToNumber(s) ==
  IF Len(s) = 0 THEN 0
  ELSE 10 * ToNumber(SubSeq(s, 1, Len(s) - 1)) + DigitVal(s[Len(s)])

FirstClock == Len(Digits) - 1
Clock == FirstClock..MaxClock

\* String(null)
NullText == <<"n", "u", "l", "l">>

\* the identifiers a caller may pass: every one the clock can mint, and one
\* that is never minted
NeverMinted == String(MaxClock + 1)
Version == {String(t) : t \in Clock} \cup {NeverMinted}

(***************************************************************************)
(* The diff codec (jsondiffpatch) on flat objects.  A delta has, per key,  *)
(* <<>> (no entry), <<new>> (added), <<old, new>> (modified) or            *)
(* <<old, 0, 0>> (deleted).                                                *)
(***************************************************************************)
\* the test `if (!diff)` left out
IsUndefinedNever(delta) == FALSE

\* jsondiffpatch.diff returns undefined when the two values are equal
IsUndefined(delta) == \A k \in Keys : delta[k] = <<>>

calculateDiff(sourceObj, targetObj) ==
  [k \in Keys |->
     IF sourceObj[k] = targetObj[k] THEN <<>>
     ELSE IF sourceObj[k] = Absent THEN <<targetObj[k]>>
     ELSE IF targetObj[k] = Absent THEN <<sourceObj[k], 0, 0>>
     ELSE <<sourceObj[k], targetObj[k]>>]

\* applyDiff with a modified entry <<old, new>> read at the wrong index
applyDiffOld(sourceObj, delta) ==
  [k \in Keys |->
     IF Len(delta[k]) = 0 THEN sourceObj[k]
     ELSE IF Len(delta[k]) = 1 THEN delta[k][1]
     ELSE IF Len(delta[k]) = 2 THEN delta[k][1]
     ELSE Absent]

\* jsondiffpatch.patch never looks at the old value a delta entry records
applyDiff(sourceObj, delta) ==
  [k \in Keys |->
     IF Len(delta[k]) = 0 THEN sourceObj[k]
     ELSE IF Len(delta[k]) = 1 THEN delta[k][1]
     ELSE IF Len(delta[k]) = 2 THEN delta[k][2]
     ELSE Absent]

(***************************************************************************)
(* State.                                                                  *)
(***************************************************************************)
VARIABLES
  mode,     \* "sync": class VersionControl, "async": class VersionControlAsync
  source,   \* content of sourceFilePath: a Doc, or Missing
  head,     \* content of headFilePath: [hasVersion, version]
  history,  \* historyDirectory: file name -> the delta stored in the file
  now,      \* the latest value Date.now() has returned
  unreadable, \* which of "head" (the head file) and "history" (the history
            \* directory) cannot be read: missing, unparsable, I/O fault
  minted,   \* how many identifiers saveNewVersion has minted
  started,  \* how many calls have been started step by step
  calls,    \* the async calls in flight: slot -> the call's position and locals
  saved,    \* history: identifier -> the document the save that wrote it produced
  last      \* history: the call that completed last, what it returned and
            \* the head file it started from

vars == <<mode, source, head, history, unreadable, now, minted, started, calls,
          saved, last>>

DiffFilePrefix == "diff_"
\* `${diffFilePrefix}${version}.diff`
DiffFileName(version) == [prefix |-> DiffFilePrefix, stem |-> version, ext |-> ".diff"]

\* {} and { version: v }
HeadEmpty == [hasVersion |-> FALSE, version |-> NullStr]
HeadOf(v) == [hasVersion |-> TRUE, version |-> v]

\* the slots in which an async call can be in flight, and an empty slot
Slots == {1, 2}
Idle == [op |-> "idle", pc |-> "idle", targetJson |-> EmptyObject,
         version |-> NullStr, currentVersion |-> NullStr,
         sourceObj |-> EmptyObject, timestamp |-> FirstClock]

\* the record of a completed call; from is the head file as the step that
\* completed the call found it
Returned(op, arg, res) ==
  [op |-> op, arg |-> arg, threw |-> FALSE, res |-> res, from |-> head]
Threw(op, arg) ==
  [op |-> op, arg |-> arg, threw |-> TRUE, res |-> Null, from |-> head]

\* the sync constructor writes "{}" to the head file and creates no source
\* file; the async init() writes { version: null } and an empty source object
Init ==
  /\ mode \in {"sync", "async"}
  /\ source = IF mode = "sync" THEN Missing ELSE EmptyObject
  /\ head = IF mode = "sync" THEN HeadEmpty ELSE HeadOf(NullStr)
  /\ history = [n \in {} |-> EmptyObject]
  /\ unreadable = {}
  /\ now = FirstClock
  /\ minted = 0
  /\ started = 0
  /\ calls = [p \in Slots |-> Idle]
  /\ saved = [v \in {} |-> EmptyObject]
  /\ last = Returned("init", NullStr, Null)

(***************************************************************************)
(* Reading.                                                                *)
(***************************************************************************)
\* readJsonFile: null when the file cannot be read
readJsonFile(file) == IF file = Missing THEN Null ELSE file

\* version !== undefined ? String(version) : null
getCurrentVersion(headFile) ==
  IF ~headFile.hasVersion THEN NullStr
  ELSE IF headFile.version = NullStr THEN NullText
  ELSE headFile.version

\* the regular expression ^${diffFilePrefix}(\d+)\.diff$
Matches(fileName) ==
  /\ fileName.prefix = DiffFilePrefix
  /\ fileName.ext = ".diff"
  /\ Len(fileName.stem) > 0
  /\ \A i \in 1..Len(fileName.stem) : IsDigit(fileName.stem[i])

\* versions.sort() without the comparator: ascending in text order
SortText(S) ==
  LET width == IF S = {} THEN 0
               ELSE CHOOSE w \in {Len(x) : x \in S} : \A x \in S : Len(x) <= w
      keyed == {<<ToNumber(x) * 10^(width - Len(x)), x>> : x \in S}
      Rank(p) == Cardinality({q \in keyed : q[1] < p[1]})
  IN [i \in 1..Cardinality(S) |-> (CHOOSE p \in keyed : Rank(p) = i - 1)[2]]

\* versions.sort((a, b) => a - b): ascending by the number each string
\* coerces to
SortNumeric(S) ==
  LET keyed == {<<ToNumber(x), x>> : x \in S}
      Rank(p) == Cardinality({q \in keyed : q[1] < p[1]})
  IN [i \in 1..Cardinality(S) |-> (CHOOSE p \in keyed : Rank(p) = i - 1)[2]]

getHistoryVersions(dir) ==
  SortNumeric({n.stem : n \in {m \in DOMAIN dir : Matches(m)}})

Includes(seq, x) == \E i \in 1..Len(seq) : seq[i] = x
IndexOf(seq, x) == CHOOSE i \in 1..Len(seq) : seq[i] = x

(***************************************************************************)
(* Navigation lookups.                                                     *)
(***************************************************************************)
\* getPreviousVersion with historyVersions[0] for historyVersions[currentIndex - 1]
getPreviousVersionFirst(headFile, dir) ==
  LET currentVersion == getCurrentVersion(headFile)
      historyVersions == getHistoryVersions(dir)
  IN IF currentVersion # NullStr /\ Includes(historyVersions, currentVersion)
       THEN LET currentIndex == IndexOf(historyVersions, currentVersion)
            IN IF currentIndex > 1 THEN historyVersions[1]
               ELSE NullStr
       ELSE NullStr

getPreviousVersion(headFile, dir) ==
  LET currentVersion == getCurrentVersion(headFile)
      historyVersions == getHistoryVersions(dir)
  IN IF currentVersion # NullStr /\ Includes(historyVersions, currentVersion)
       THEN LET currentIndex == IndexOf(historyVersions, currentVersion)
            IN IF currentIndex > 1 THEN historyVersions[currentIndex - 1]
               ELSE NullStr
       ELSE NullStr

\* getNextVersion without the test currentIndex < historyVersions.length - 1:
\* past the last entry it wraps around to the first
getNextVersionWraps(headFile, dir) ==
  LET currentVersion == getCurrentVersion(headFile)
      historyVersions == getHistoryVersions(dir)
  IN IF currentVersion # NullStr /\ Includes(historyVersions, currentVersion)
       THEN LET currentIndex == IndexOf(historyVersions, currentVersion)
            IN historyVersions[(currentIndex % Len(historyVersions)) + 1]
       ELSE NullStr

getNextVersion(headFile, dir) ==
  LET currentVersion == getCurrentVersion(headFile)
      historyVersions == getHistoryVersions(dir)
  IN IF currentVersion # NullStr /\ Includes(historyVersions, currentVersion)
       THEN LET currentIndex == IndexOf(historyVersions, currentVersion)
            IN IF currentIndex < Len(historyVersions)
                 THEN historyVersions[currentIndex + 1]
                 ELSE NullStr
       ELSE NullStr

(***************************************************************************)
(* Reconstruction.  The result is [threw, val]: threw when the call raises *)
(* an exception, val the value it returns otherwise.                       *)
(***************************************************************************)
Value(v) == [threw |-> FALSE, val |-> v]
Exception == [threw |-> TRUE, val |-> Null]

\* the loop over versionsToApply: patchedObj = applyDiff(patchedObj, diff).
\* Patching null with an object delta dereferences null: a TypeError.
RECURSIVE Replay(_, _, _)
Replay(patchedObj, versionsToApply, dir) ==
  IF Len(versionsToApply) = 0 THEN Value(patchedObj)
  ELSE IF patchedObj = Null THEN Exception
  ELSE Replay(applyDiff(patchedObj, dir[DiffFileName(Head(versionsToApply))]),
              Tail(versionsToApply), dir)

\* VersionControl.getSourceFromVersion: the replay starts from the content
\* of the source file.
getSourceFromVersionSync(headFile, dir, sourceFile, version) ==
  LET currentVersion == getCurrentVersion(headFile)
      historyVersions == getHistoryVersions(dir)
  IN IF currentVersion = NullStr \/ ~Includes(historyVersions, version)
       THEN Value(Null)
       ELSE Replay(readJsonFile(sourceFile),
                   SubSeq(historyVersions, 1, IndexOf(historyVersions, version)),
                   dir)

\* VersionControlAsync.getSourceFromVersion: readJsonFile is not awaited, so
\* patchedObj is the pending promise.  Each applyDiff sets or deletes
\* properties of the promise object and returns it; the async function that
\* returns the promise resolves to what the promise resolves to, the content
\* of the source file as read, whatever the deltas were.
getSourceFromVersionAsync(headFile, dir, sourceFile, version) ==
  LET currentVersion == getCurrentVersion(headFile)
      historyVersions == getHistoryVersions(dir)
  IN IF currentVersion = NullStr \/ ~Includes(historyVersions, version)
       THEN Value(Null)
       ELSE Value(readJsonFile(sourceFile))

getSourceFromVersion(m, headFile, dir, sourceFile, version) ==
  IF m = "sync" THEN getSourceFromVersionSync(headFile, dir, sourceFile, version)
  ELSE getSourceFromVersionAsync(headFile, dir, sourceFile, version)

(***************************************************************************)
(* Writing.  A call's writes happen in program order; fault names the      *)
(* first write of the call that fails (0: none does, as when the call      *)
(* writes nothing).  A failed write raises: the blocking class lets the    *)
(* exception reach the caller, the suspending class catches it and         *)
(* returns null.                                                           *)
(***************************************************************************)
SaveWrites == 3
ApplyWrites == 2

\* fs.writeFileSync / writeFileAsync on a diff file: creates or overwrites it
writeJsonFile(dir, fileName, jsonData) ==
  [n \in DOMAIN dir \cup {fileName} |-> IF n = fileName THEN jsonData ELSE dir[n]]

Record(tbl, version, doc) ==
  [v \in DOMAIN tbl \cup {version} |-> IF v = version THEN doc ELSE tbl[v]]

Failed(op, arg) == IF mode = "sync" THEN Threw(op, arg) ELSE Returned(op, arg, Null)

\* the object saveNewVersion diffs against: the blocking class takes {} when
\* the source file does not exist; the suspending class reads the file, which
\* init() has created
SourceForSave(m, sourceFile) ==
  IF m = "sync" /\ sourceFile = Missing THEN EmptyObject
  ELSE readJsonFile(sourceFile)

\* saveNewVersion writing the head file before the diff file
saveNewVersionHeadFirst(targetJson, timestamp, fault) ==
  LET sourceObj == SourceForSave(mode, source)
      diff == calculateDiff(sourceObj, targetJson)
      patchedObj == applyDiff(sourceObj, diff)
      version == String(timestamp)
  IN IF IsUndefined(diff)
       THEN /\ fault = 0
            /\ last' = Returned("saveNewVersion", targetJson, Null)
            /\ UNCHANGED <<mode, unreadable, source, head, history, now, minted, started, calls, saved>>
       ELSE /\ minted < MaxSaves
            /\ minted' = minted + 1
            /\ now' = timestamp
            /\ head' = IF fault = 1 THEN head ELSE HeadOf(version)
            /\ history' = IF fault \in {1, 2} THEN history
                          ELSE writeJsonFile(history, DiffFileName(version), diff)
            /\ saved' = IF fault \in {1, 2} THEN saved
                        ELSE Record(saved, version, patchedObj)
            /\ source' = IF fault \in {1, 2, 3} THEN source ELSE patchedObj
            /\ last' = IF fault = 0
                         THEN Returned("saveNewVersion", targetJson, patchedObj)
                         ELSE Failed("saveNewVersion", targetJson)
            /\ UNCHANGED <<mode, unreadable, started, calls>>

saveNewVersion(targetJson, timestamp, fault) ==
  LET sourceObj == SourceForSave(mode, source)
      diff == calculateDiff(sourceObj, targetJson)
      patchedObj == applyDiff(sourceObj, diff)
      version == String(timestamp)
  IN IF IsUndefined(diff)
       THEN /\ fault = 0
            /\ last' = Returned("saveNewVersion", targetJson, Null)
            /\ UNCHANGED <<mode, unreadable, source, head, history, now, minted, started, calls, saved>>
       ELSE /\ minted < MaxSaves
            /\ minted' = minted + 1
            /\ now' = timestamp
            /\ history' = IF fault = 1 THEN history
                          ELSE writeJsonFile(history, DiffFileName(version), diff)
            /\ saved' = IF fault = 1 THEN saved
                        ELSE Record(saved, version, patchedObj)
            /\ head' = IF fault \in {1, 2} THEN head ELSE HeadOf(version)
            /\ source' = IF fault \in {1, 2, 3} THEN source ELSE patchedObj
            /\ last' = IF fault = 0
                         THEN Returned("saveNewVersion", targetJson, patchedObj)
                         ELSE Failed("saveNewVersion", targetJson)
            /\ UNCHANGED <<mode, unreadable, started, calls>>

\* applyVersionToSource without its write of the source file
ApplyVersionHeadOnly(op, arg, version, fault) ==
  LET sourceObj == getSourceFromVersion(mode, head, history, source, version)
  IN IF sourceObj.threw
       THEN /\ last' = Failed(op, arg)
            /\ UNCHANGED <<mode, unreadable, source, head, history, now, minted, started, calls, saved>>
       ELSE IF sourceObj.val = Null
       THEN /\ last' = Returned(op, arg, Null)
            /\ UNCHANGED <<mode, unreadable, source, head, history, now, minted, started, calls, saved>>
       ELSE /\ head' = IF fault \in {1, 2} THEN head ELSE HeadOf(version)
            /\ last' = IF fault = 0 THEN Returned(op, arg, sourceObj.val)
                       ELSE Failed(op, arg)
            /\ UNCHANGED <<mode, unreadable, source, history, now, minted, started, calls, saved>>

\* applyVersionToSource resetting the head file to {} when the version is
\* not found
ApplyVersionClearsHead(op, arg, version, fault) ==
  LET sourceObj == getSourceFromVersion(mode, head, history, source, version)
  IN IF sourceObj.threw
       THEN /\ fault = 0
            /\ last' = Failed(op, arg)
            /\ UNCHANGED <<mode, unreadable, source, head, history, now, minted, started, calls, saved>>
       ELSE IF sourceObj.val = Null
       THEN /\ fault = 0
            /\ head' = HeadEmpty
            /\ last' = Returned(op, arg, Null)
            /\ UNCHANGED <<mode, unreadable, source, history, now, minted, started, calls, saved>>
       ELSE /\ source' = IF fault = 1 THEN source ELSE sourceObj.val
            /\ head' = IF fault \in {1, 2} THEN head ELSE HeadOf(version)
            /\ last' = IF fault = 0 THEN Returned(op, arg, sourceObj.val)
                       ELSE Failed(op, arg)
            /\ UNCHANGED <<mode, unreadable, history, now, minted, started, calls, saved>>

\* applyVersionToSource, also as the tail of the four apply* conveniences;
\* op and arg name the call the caller made
ApplyVersion(op, arg, version, fault) ==
  LET sourceObj == getSourceFromVersion(mode, head, history, source, version)
  IN IF sourceObj.threw
       THEN /\ fault = 0
            /\ last' = Failed(op, arg)
            /\ UNCHANGED <<mode, unreadable, source, head, history, now, minted, started, calls, saved>>
       ELSE IF sourceObj.val = Null
       THEN /\ fault = 0
            /\ last' = Returned(op, arg, Null)
            /\ UNCHANGED <<mode, unreadable, source, head, history, now, minted, started, calls, saved>>
       ELSE /\ source' = IF fault = 1 THEN source ELSE sourceObj.val
            /\ head' = IF fault \in {1, 2} THEN head ELSE HeadOf(version)
            /\ last' = IF fault = 0 THEN Returned(op, arg, sourceObj.val)
                       ELSE Failed(op, arg)
            /\ UNCHANGED <<mode, unreadable, history, now, minted, started, calls, saved>>

applyVersionToSource(version, fault) ==
  ApplyVersion("applyVersionToSource", version, version, fault)

\* ApplyLookup without the test of the lookup's result: null goes on to the
\* write of the head file
ApplyLookupWritesHead(op, version, fault) ==
  IF version = NullStr
    THEN /\ fault = 0
         /\ head' = HeadOf(NullStr)
         /\ last' = Returned(op, NullStr, Null)
         /\ UNCHANGED <<mode, unreadable, source, history, now, minted, started, calls, saved>>
    ELSE ApplyVersion(op, NullStr, version, fault)

\* a lookup that yields null ends the call with null
ApplyLookup(op, version, fault) ==
  IF version = NullStr
    THEN /\ fault = 0
         /\ last' = Returned(op, NullStr, Null)
         /\ UNCHANGED <<mode, unreadable, source, head, history, now, minted, started, calls, saved>>
    ELSE ApplyVersion(op, NullStr, version, fault)

applyPreviousVersion(fault) ==
  ApplyLookup("applyPreviousVersion", getPreviousVersion(head, history), fault)

\* First reading historyVersions[historyVersions.length - 1]
FirstFromEnd(historyVersions) ==
  IF Len(historyVersions) = 0 THEN NullStr ELSE historyVersions[Len(historyVersions)]

\* historyVersions[0], or null when the list is empty
First(historyVersions) ==
  IF Len(historyVersions) = 0 THEN NullStr ELSE historyVersions[1]
\* historyVersions[historyVersions.length - 1], or null when the list is empty
Last(historyVersions) ==
  IF Len(historyVersions) = 0 THEN NullStr ELSE historyVersions[Len(historyVersions)]

\* applyNextVersion applying the latest version for the next one
applyNextVersionLatest(fault) ==
  ApplyLookup("applyNextVersion",
              IF getNextVersion(head, history) = NullStr THEN NullStr
              ELSE Last(getHistoryVersions(history)),
              fault)

applyNextVersion(fault) ==
  ApplyLookup("applyNextVersion", getNextVersion(head, history), fault)

applyInitialVersion(fault) ==
  ApplyLookup("applyInitialVersion", First(getHistoryVersions(history)), fault)

applyLatestVersion(fault) ==
  ApplyLookup("applyLatestVersion", Last(getHistoryVersions(history)), fault)

(***************************************************************************)
(* Calls that only read.                                                   *)
(***************************************************************************)
\* Reads that also writes the document it returns to the source file
ReadsAndStores(op, arg, res) ==
  /\ last' = (IF res.threw THEN Failed(op, arg) ELSE Returned(op, arg, res.val))
  /\ source' = IF /\ op \in {"getSourceFromVersion", "getInitialVersion",
                               "getLatestVersion"}
                  /\ ~res.threw /\ res.val # Null
                 THEN res.val ELSE source
  /\ UNCHANGED <<mode, unreadable, head, history, now, minted, started, calls, saved>>

Reads(op, arg, res) ==
  /\ last' = (IF res.threw THEN Failed(op, arg) ELSE Returned(op, arg, res.val))
  /\ UNCHANGED <<mode, unreadable, source, head, history, now, minted, started, calls, saved>>

GetSourceFromVersion(version) ==
  Reads("getSourceFromVersion", version,
        getSourceFromVersion(mode, head, history, source, version))

GetInitialVersion ==
  LET historyVersions == getHistoryVersions(history)
  IN Reads("getInitialVersion", NullStr,
           IF Len(historyVersions) = 0 THEN Value(Null)
           ELSE getSourceFromVersion(mode, head, history, source,
                                     First(historyVersions)))

GetLatestVersion ==
  LET historyVersions == getHistoryVersions(history)
  IN Reads("getLatestVersion", NullStr,
           IF Len(historyVersions) = 0 THEN Value(Null)
           ELSE getSourceFromVersion(mode, head, history, source,
                                     Last(historyVersions)))

\* what readFileSync / readFileAsync finds at headFilePath
HeadFile == IF "head" \in unreadable THEN Missing ELSE head

\* a call of getCurrentVersion: readJsonFile yields null for a head file
\* that cannot be read or parsed, and headData.version then raises a
\* TypeError; only the suspending class catches it
getCurrentVersionCall(m, headFile) ==
  IF readJsonFile(headFile) = Null
    THEN IF m = "sync" THEN Exception ELSE Value(NullStr)
    ELSE Value(getCurrentVersion(headFile))

\* a call of getHistoryVersions: readdir raises when the directory cannot
\* be listed; only the suspending class catches it and returns []
getHistoryVersionsCall(m, listed, dir) ==
  IF ~listed
    THEN IF m = "sync" THEN Exception ELSE Value(<<>>)
    ELSE Value(getHistoryVersions(dir))

GetCurrentVersion ==
  Reads("getCurrentVersion", NullStr, getCurrentVersionCall(mode, HeadFile))

GetHistoryVersions ==
  Reads("getHistoryVersions", NullStr,
        getHistoryVersionsCall(mode, "history" \notin unreadable, history))

GetPreviousVersion ==
  Reads("getPreviousVersion", NullStr, Value(getPreviousVersion(head, history)))

GetNextVersion ==
  Reads("getNextVersion", NullStr, Value(getNextVersion(head, history)))

(***************************************************************************)
(* The program: calls made one after another, each running to completion   *)
(* and every write succeeding.  Date.now() returns what it returned last   *)
(* or the next millisecond.                                                *)
(***************************************************************************)
Ticks == {t \in {now, now + 1} : t <= MaxClock}

Next ==
  \/ \E targetJson \in Targets, timestamp \in Ticks :
       saveNewVersion(targetJson, timestamp, 0)
  \/ \E version \in Version : applyVersionToSource(version, 0)
  \/ applyPreviousVersion(0)
  \/ applyNextVersion(0)
  \/ applyInitialVersion(0)
  \/ applyLatestVersion(0)
  \/ \E version \in Version : GetSourceFromVersion(version)
  \/ GetInitialVersion
  \/ GetLatestVersion
  \/ GetCurrentVersion
  \/ GetHistoryVersions
  \/ GetPreviousVersion
  \/ GetNextVersion

Spec == Init /\ [][Next]_vars

(***************************************************************************)
(* The two calls that write, run to completion, with and without a write   *)
(* that fails.                                                             *)
(***************************************************************************)
NextFault ==
  \/ \E targetJson \in Targets, timestamp \in Ticks, fault \in 0..SaveWrites :
       saveNewVersion(targetJson, timestamp, fault)
  \/ \E version \in Version, fault \in 0..ApplyWrites :
       applyVersionToSource(version, fault)

(***************************************************************************)
(* Faults of the store on the read side.  The head file or the history     *)
(* directory becomes unreadable, or readable again, behind the program's   *)
(* back; getCurrentVersion and getHistoryVersions are called in every      *)
(* condition of the store, the calls that write while it is intact.        *)
(***************************************************************************)
Stores == {"head", "history"}

StoreFault(u) ==
  /\ u # unreadable
  /\ unreadable' = u
  /\ UNCHANGED <<mode, source, head, history, now, minted, started, calls, saved, last>>

NextRead ==
  \/ /\ unreadable = {}
     /\ \/ \E targetJson \in Targets, timestamp \in Ticks :
             saveNewVersion(targetJson, timestamp, 0)
        \/ \E version \in Version : applyVersionToSource(version, 0)
  \/ \E u \in SUBSET Stores : StoreFault(u)
  \/ GetCurrentVersion
  \/ GetHistoryVersions

SpecRead == Init /\ [][NextRead]_vars

(***************************************************************************)
(* Files in the history directory that the program did not write: names    *)
(* that resemble a diff file's (diff_.diff, diff_9a.diff,                  *)
(* diff_10.diff.bak).  They appear behind the program's back, between      *)
(* saves; getHistoryVersions lists the directory.                          *)
(***************************************************************************)
ForeignNames ==
  {[prefix |-> DiffFilePrefix, stem |-> <<>>, ext |-> ".diff"],
   [prefix |-> DiffFilePrefix, stem |-> <<"9", "a">>, ext |-> ".diff"],
   [prefix |-> DiffFilePrefix, stem |-> <<"1", "0">>, ext |-> ".diff.bak"]}

ForeignFile(n) ==
  /\ n \notin DOMAIN history
  /\ history' = writeJsonFile(history, n, [k \in Keys |-> <<>>])
  /\ UNCHANGED <<mode, unreadable, source, head, now, minted, started, calls, saved, last>>

NextList ==
  \/ \E targetJson \in Targets, timestamp \in Ticks :
       saveNewVersion(targetJson, timestamp, 0)
  \/ \E n \in ForeignNames : ForeignFile(n)
  \/ GetHistoryVersions

SpecList == Init /\ [][NextList]_vars

(***************************************************************************)
(* VersionControlAsync, one step per await.  A step is the completion of   *)
(* the awaited read or write together with the code that runs up to the    *)
(* next await.  Calls in different slots interleave at these steps.        *)
(***************************************************************************)
Return(p, op, arg, res) ==
  /\ calls' = [calls EXCEPT ![p] = Idle]
  /\ last' = Returned(op, arg, res)

\* saveNewVersion is called; readJsonFile(sourceFilePath) completes
SaveReadSource(p, targetJson) ==
  /\ mode = "async" /\ calls[p].op = "idle"
  /\ started < MaxCalls
  /\ started' = started + 1
  /\ calls' = [calls EXCEPT ![p] =
       [Idle EXCEPT !.op = "saveNewVersion", !.pc = "diff",
                    !.targetJson = targetJson,
                    !.sourceObj = readJsonFile(source)]]
  /\ UNCHANGED <<mode, unreadable, source, head, history, now, minted, saved, last>>

\* calculateDiff; return null, or Date.now(), applyDiff and the diff file's
\* write is started
SaveDiff(p, timestamp) ==
  LET c == calls[p]
      diff == calculateDiff(c.sourceObj, c.targetJson)
  IN /\ c.op = "saveNewVersion" /\ c.pc = "diff"
     /\ IF IsUndefined(diff)
          THEN /\ Return(p, "saveNewVersion", c.targetJson, Null)
               /\ UNCHANGED <<now, minted>>
          ELSE /\ minted < MaxSaves
               /\ minted' = minted + 1
               /\ now' = timestamp
               /\ calls' = [calls EXCEPT ![p].pc = "writeDiff",
                                         ![p].timestamp = timestamp]
               /\ UNCHANGED last
     /\ UNCHANGED <<mode, unreadable, started, source, head, history, saved>>

\* await writeJsonFile(diffFilePath, diff)
SaveWriteDiff(p, ok) ==
  LET c == calls[p]
      diff == calculateDiff(c.sourceObj, c.targetJson)
      version == String(c.timestamp)
  IN /\ c.op = "saveNewVersion" /\ c.pc = "writeDiff"
     /\ IF ok
          THEN /\ history' = writeJsonFile(history, DiffFileName(version), diff)
               /\ saved' = Record(saved, version, applyDiff(c.sourceObj, diff))
               /\ calls' = [calls EXCEPT ![p].pc = "writeHead"]
               /\ UNCHANGED last
          ELSE /\ Return(p, "saveNewVersion", c.targetJson, Null)
               /\ UNCHANGED <<history, saved>>
     /\ UNCHANGED <<mode, unreadable, started, source, head, now, minted>>

\* SaveWriteHead with the source file written in the same step as the head
\* file
SaveWriteHeadAndSource(p, ok) ==
  LET c == calls[p]
      patchedObj == applyDiff(c.sourceObj, calculateDiff(c.sourceObj, c.targetJson))
  IN /\ c.op = "saveNewVersion" /\ c.pc = "writeHead"
     /\ IF ok
          THEN /\ head' = HeadOf(String(c.timestamp))
               /\ source' = patchedObj
               /\ calls' = [calls EXCEPT ![p].pc = "writeSource"]
               /\ UNCHANGED last
          ELSE /\ Return(p, "saveNewVersion", c.targetJson, Null)
               /\ UNCHANGED <<head, source>>
     /\ UNCHANGED <<mode, unreadable, started, history, now, minted, saved>>

\* await writeJsonFile(headFilePath, { version: String(timestamp) })
SaveWriteHead(p, ok) ==
  LET c == calls[p]
  IN /\ c.op = "saveNewVersion" /\ c.pc = "writeHead"
     /\ IF ok
          THEN /\ head' = HeadOf(String(c.timestamp))
               /\ calls' = [calls EXCEPT ![p].pc = "writeSource"]
               /\ UNCHANGED last
          ELSE /\ Return(p, "saveNewVersion", c.targetJson, Null)
               /\ UNCHANGED head
     /\ UNCHANGED <<mode, unreadable, started, source, history, now, minted, saved>>

\* await writeJsonFile(sourceFilePath, patchedObj); return patchedObj
SaveWriteSource(p, ok) ==
  LET c == calls[p]
      patchedObj == applyDiff(c.sourceObj, calculateDiff(c.sourceObj, c.targetJson))
  IN /\ c.op = "saveNewVersion" /\ c.pc = "writeSource"
     /\ IF ok
          THEN /\ source' = patchedObj
               /\ Return(p, "saveNewVersion", c.targetJson, patchedObj)
          ELSE /\ Return(p, "saveNewVersion", c.targetJson, Null)
               /\ UNCHANGED source
     /\ UNCHANGED <<mode, unreadable, started, head, history, now, minted, saved>>

\* applyVersionToSource is called; in getSourceFromVersion,
\* await getCurrentVersion() completes
ApplyReadHead(p, version) ==
  /\ mode = "async" /\ calls[p].op = "idle"
  /\ started < MaxCalls
  /\ started' = started + 1
  /\ calls' = [calls EXCEPT ![p] =
       [Idle EXCEPT !.op = "applyVersionToSource", !.pc = "list",
                    !.version = version,
                    !.currentVersion = getCurrentVersion(head)]]
  /\ UNCHANGED <<mode, unreadable, source, head, history, now, minted, saved, last>>

\* ApplyList without the test historyVersions.includes(version)
ApplyListNoLookup(p) ==
  LET c == calls[p]
  IN /\ c.op = "applyVersionToSource" /\ c.pc = "list"
     /\ IF c.currentVersion = NullStr
          THEN Return(p, "applyVersionToSource", c.version, Null)
          ELSE /\ calls' = [calls EXCEPT ![p].pc = "readSource"]
               /\ UNCHANGED last
     /\ UNCHANGED <<mode, unreadable, started, source, head, history, now, minted, saved>>

\* await getHistoryVersions() completes; the version is looked up and, if
\* found, readJsonFile(sourceFilePath) is started without being awaited
ApplyList(p) ==
  LET c == calls[p]
  IN /\ c.op = "applyVersionToSource" /\ c.pc = "list"
     /\ IF c.currentVersion = NullStr
           \/ ~Includes(getHistoryVersions(history), c.version)
          THEN Return(p, "applyVersionToSource", c.version, Null)
          ELSE /\ calls' = [calls EXCEPT ![p].pc = "readSource"]
               /\ UNCHANGED last
     /\ UNCHANGED <<mode, unreadable, started, source, head, history, now, minted, saved>>

\* the read of the source file completes; the diff files are read and
\* patched into the promise; getSourceFromVersion resolves to the object read
ApplyReadSource(p) ==
  LET c == calls[p]
  IN /\ c.op = "applyVersionToSource" /\ c.pc = "readSource"
     /\ IF readJsonFile(source) = Null
          THEN Return(p, "applyVersionToSource", c.version, Null)
          ELSE /\ calls' = [calls EXCEPT ![p].pc = "writeSource",
                                         ![p].sourceObj = readJsonFile(source)]
               /\ UNCHANGED last
     /\ UNCHANGED <<mode, unreadable, started, source, head, history, now, minted, saved>>

\* await writeJsonFile(sourceFilePath, sourceObj)
ApplyWriteSource(p, ok) ==
  LET c == calls[p]
  IN /\ c.op = "applyVersionToSource" /\ c.pc = "writeSource"
     /\ IF ok
          THEN /\ source' = c.sourceObj
               /\ calls' = [calls EXCEPT ![p].pc = "writeHead"]
               /\ UNCHANGED last
          ELSE /\ Return(p, "applyVersionToSource", c.version, Null)
               /\ UNCHANGED source
     /\ UNCHANGED <<mode, unreadable, started, head, history, now, minted, saved>>

\* await writeJsonFile(headFilePath, { version }); return sourceObj
ApplyWriteHead(p, ok) ==
  LET c == calls[p]
  IN /\ c.op = "applyVersionToSource" /\ c.pc = "writeHead"
     /\ IF ok
          THEN /\ head' = HeadOf(c.version)
               /\ Return(p, "applyVersionToSource", c.version, c.sourceObj)
          ELSE /\ Return(p, "applyVersionToSource", c.version, Null)
               /\ UNCHANGED head
     /\ UNCHANGED <<mode, unreadable, started, source, history, now, minted, saved>>

NextAsync ==
  \E p \in Slots :
    \/ \E targetJson \in Targets : SaveReadSource(p, targetJson)
    \/ \E timestamp \in Ticks : SaveDiff(p, timestamp)
    \/ \E ok \in BOOLEAN : SaveWriteDiff(p, ok)
    \/ \E ok \in BOOLEAN : SaveWriteHead(p, ok)
    \/ \E ok \in BOOLEAN : SaveWriteSource(p, ok)
    \/ \E version \in Version : ApplyReadHead(p, version)
    \/ ApplyList(p)
    \/ ApplyReadSource(p)
    \/ \E ok \in BOOLEAN : ApplyWriteSource(p, ok)
    \/ \E ok \in BOOLEAN : ApplyWriteHead(p, ok)

\* the blocking class with failing writes, and the suspending class with
\* failing writes and overlapping calls
NextConc ==
  \/ mode = "sync" /\ NextFault
  \/ NextAsync

SpecConc == Init /\ [][NextConc]_vars

(***************************************************************************)
(* Properties.                                                             *)
(***************************************************************************)
\* the History Chain and the Head Pointer of a state
Chain == getHistoryVersions(history)
HeadPointer == IF head.hasVersion THEN head.version ELSE NullStr

\* the step is a saveNewVersion that wrote a version (did not return null
\* and did not fail)
SaveSucceeds == last'.op = "saveNewVersion" /\ ~last'.threw /\ last'.res # Null

\* C1: with the Head Pointer not none, getSourceFromVersion(k) returns, for
\* every identifier k of the History Chain, the document the save that
\* created k produced.
C1_ReconstructsSavedValue ==
  HeadPointer # NullStr =>
    \A i \in 1..Len(Chain) :
      getSourceFromVersion(mode, head, history, source, Chain[i])
        = Value(saved[Chain[i]])

\* C2: a saveNewVersion that succeeds makes the History Chain longer by
\* exactly one identifier and leaves the Head Pointer at the identifier added.
C2_SaveAppendsOne ==
  [][SaveSucceeds =>
       /\ Len(getHistoryVersions(history')) = Len(getHistoryVersions(history)) + 1
       /\ \E n \in (DOMAIN history') \ (DOMAIN history) : head' = HeadOf(n.stem)
    ]_vars

\* C3: after a saveNewVersion(x) that succeeds, the source file holds x and
\* the call has returned x.
C3_SavePersistsTarget ==
  [][SaveSucceeds => source' = last'.arg /\ last'.res = last'.arg]_vars

\* a successful save has replaced a non-empty snapshot by a different target
C3_Witness ==
  /\ last.op = "saveNewVersion" /\ last.res # Null
  /\ Len(Chain) >= 2
  /\ source = last.arg /\ last.arg = Object(2, 2)

\* C4: saveNewVersion(x) with x equal to the current Document Snapshot
\* returns null and leaves the source file, the head file and the history
\* directory as they were.
C4_SaveOfSameIsNoOp ==
  [][last'.op = "saveNewVersion" /\ last'.arg = SourceForSave(mode, source) =>
       /\ last'.res = Null /\ ~last'.threw
       /\ UNCHANGED <<source, head, history>>
    ]_vars

\* the second of two saves of the same value has returned null
C4_Witness ==
  /\ last.op = "saveNewVersion" /\ last.res = Null
  /\ source = last.arg
  /\ Len(Chain) >= 1 /\ saved[HeadPointer] = last.arg

\* C5: in every state, between the writes of a call and after a failed
\* write included, the head file names no version or names an identifier of
\* the History Chain.
C5_HeadNamesARecord ==
  HeadPointer = NullStr \/ Includes(Chain, HeadPointer)

\* a save has written its diff file and the head file and not yet the source
\* file, while a second call is in flight
C5_Witness ==
  \E p \in Slots, q \in Slots :
    /\ calls[p].op = "saveNewVersion" /\ calls[p].pc = "writeSource"
    /\ HeadPointer = String(calls[p].timestamp)
    /\ q # p /\ calls[q].op # "idle"

\* C6: the identifier a successful saveNewVersion mints is numerically
\* greater than every identifier the History Chain already held.
C6_MintedIsGreater ==
  [][SaveSucceeds =>
       \A i \in 1..Len(getHistoryVersions(history)) :
         ToNumber(getHistoryVersions(history)[i]) < ToNumber(head'.version)
    ]_vars

\* C7: a Version Record, once written, stays in the history directory with
\* the delta it was written with.
C7_RecordsAreImmutable ==
  [][\A n \in DOMAIN history :
       n \in DOMAIN history' /\ history'[n] = history[n]]_vars

\* the deltas of Chain[1..k] applied in order to the empty object
RECURSIVE ReplayFromEmpty(_)
ReplayFromEmpty(k) ==
  IF k = 0 THEN EmptyObject
  ELSE applyDiff(ReplayFromEmpty(k - 1), history[DiffFileName(Chain[k])])

\* no two saves have minted the same identifier
NoCollision == minted = Cardinality(DOMAIN history)

\* C8: for every index k of the History Chain, the deltas of entries 1..k
\* applied in ascending order to the empty object give the document saved
\* as version k.  Stated for the runs in which no identifier was minted
\* twice, where the chain has one record per save.
C8_ReplayFromEmptyGivesSaved ==
  NoCollision =>
    \A k \in 1..Len(Chain) : ReplayFromEmpty(k) = saved[Chain[k]]

\* C9: when the Head Pointer is not none, the source file holds the document
\* saved under the identifier the Head Pointer names.
C9_SnapshotIsHeadVersion ==
  HeadPointer # NullStr => source = saved[HeadPointer]

\* C10: applyVersionToSource(v) writes what getSourceFromVersion(v) yields to
\* the source file, sets the Head Pointer to v and leaves the history
\* directory alone; when getSourceFromVersion(v) yields null it returns null
\* and changes none of the three.
C10_ApplyWritesReconstruction ==
  [][last'.op = "applyVersionToSource" =>
       LET sourceObj == getSourceFromVersion(mode, head, history, source,
                                             last'.arg).val
       IN IF sourceObj = Null
            THEN last'.res = Null /\ UNCHANGED <<source, head, history>>
            ELSE /\ source' = sourceObj
                 /\ head' = HeadOf(last'.arg)
                 /\ history' = history
                 /\ last'.res = sourceObj
    ]_vars

\* applyVersionToSource has moved the Head Pointer back to an earlier
\* version and has written a source file
C10_Witness ==
  /\ last.op = "applyVersionToSource" /\ last.res # Null
  /\ Len(Chain) >= 2 /\ HeadPointer = Chain[1]
  /\ source = last.res

\* applyVersionToSource of an identifier that names no record has returned
\* null
C10_WitnessNotFound ==
  /\ last.op = "applyVersionToSource" /\ last.res = Null
  /\ Len(Chain) >= 1 /\ ~Includes(Chain, last.arg)

\* the identifiers of the History Chain numerically below and above the one
\* the Head Pointer names
Before == {v \in {Chain[i] : i \in 1..Len(Chain)} : ToNumber(v) < ToNumber(HeadPointer)}
After == {v \in {Chain[i] : i \in 1..Len(Chain)} : ToNumber(v) > ToNumber(HeadPointer)}
HeadInChain == HeadPointer # NullStr /\ Includes(Chain, HeadPointer)

\* C11: getPreviousVersion returns null exactly when the Head Pointer is
\* none, names no entry of the History Chain or names the first entry;
\* otherwise it returns the greatest identifier of the chain below the one
\* the Head Pointer names.
C11_PreviousIsPredecessor ==
  [][last'.op = "getPreviousVersion" =>
       /\ ~last'.threw
       /\ last'.res = NullStr <=> (~HeadInChain \/ Before = {})
       /\ last'.res # NullStr =>
            /\ last'.res \in Before
            /\ \A v \in Before : ToNumber(v) <= ToNumber(last'.res)
    ]_vars

\* with the Head Pointer on the last of three entries, getPreviousVersion
\* has returned the second
C11_Witness ==
  /\ last.op = "getPreviousVersion"
  /\ Len(Chain) = 3 /\ HeadPointer = Chain[3] /\ last.res = Chain[2]

\* with the Head Pointer on the first entry, getPreviousVersion has
\* returned null
C11_WitnessFirst ==
  /\ last.op = "getPreviousVersion"
  /\ Len(Chain) >= 2 /\ HeadPointer = Chain[1] /\ last.res = NullStr

\* C12: getNextVersion returns null exactly when the Head Pointer is none,
\* names no entry of the History Chain or names the last entry; otherwise it
\* returns the least identifier of the chain above the one the Head Pointer
\* names.
C12_NextIsSuccessor ==
  [][last'.op = "getNextVersion" =>
       /\ ~last'.threw
       /\ last'.res = NullStr <=> (~HeadInChain \/ After = {})
       /\ last'.res # NullStr =>
            /\ last'.res \in After
            /\ \A v \in After : ToNumber(last'.res) <= ToNumber(v)
    ]_vars

\* with the Head Pointer moved back to the first of three entries,
\* getNextVersion has returned the second
C12_Witness ==
  /\ last.op = "getNextVersion"
  /\ Len(Chain) = 3 /\ HeadPointer = Chain[1] /\ last.res = Chain[2]

\* with the Head Pointer on the last entry, getNextVersion has returned null
C12_WitnessLast ==
  /\ last.op = "getNextVersion"
  /\ Len(Chain) >= 2 /\ HeadPointer = Chain[Len(Chain)] /\ last.res = NullStr

\* the entry of the History Chain directly after v, null after the last
Successor(v) ==
  LET i == IndexOf(Chain, v)
  IN IF i < Len(Chain) THEN Chain[i + 1] ELSE NullStr

\* C13: an applyNextVersion made right after an applyPreviousVersion that
\* applied a version puts the head file back to what it was before the
\* applyPreviousVersion (the Head Pointer then named an entry that is not the
\* first: every interior entry is one); and a getNextVersion made right
\* after an applyVersionToSource(v) that applied v returns the entry of the
\* History Chain directly after v.
C13_PreviousThenNextReturns ==
  [][/\ (/\ last.op = "applyPreviousVersion" /\ last.res # Null
         /\ last'.op = "applyNextVersion")
          => /\ ~last'.threw /\ last'.res # Null
             /\ last'.from = head
             /\ head' = last.from
     /\ (/\ last.op = "applyVersionToSource" /\ last.res # Null
         /\ last'.op = "getNextVersion")
          => last'.res = Successor(last.arg)
    ]_vars

\* applyNextVersion has moved the Head Pointer from the first of three
\* entries to the second, an interior entry
C13_Witness ==
  /\ last.op = "applyNextVersion" /\ last.res # Null
  /\ Len(Chain) = 3 /\ last.from = HeadOf(Chain[1]) /\ HeadPointer = Chain[2]

\* C14: getInitialVersion and getLatestVersion return null when the History
\* Chain is empty; otherwise they return what getSourceFromVersion yields for
\* the first, respectively the last, identifier of the chain.
C14_InitialAndLatest ==
  [][/\ last'.op = "getInitialVersion" =>
          /\ ~last'.threw
          /\ last'.res = IF Len(Chain) = 0 THEN Null
                         ELSE getSourceFromVersion(mode, head, history, source,
                                                   Chain[1]).val
     /\ last'.op = "getLatestVersion" =>
          /\ ~last'.threw
          /\ last'.res = IF Len(Chain) = 0 THEN Null
                         ELSE getSourceFromVersion(mode, head, history, source,
                                                   Chain[Len(Chain)]).val
    ]_vars

\* getInitialVersion has returned a document for a chain of three entries,
\* and it is not what getLatestVersion would return
C14_Witness ==
  /\ last.op = "getInitialVersion" /\ last.res # Null
  /\ Len(Chain) = 3
  /\ last.res # getSourceFromVersion(mode, head, history, source, Chain[3]).val

\* getLatestVersion has returned null for the empty chain
C14_WitnessEmpty ==
  /\ last.op = "getLatestVersion" /\ last.res = Null
  /\ Len(Chain) = 0

\* the lookup under the apply* call op yields none in the state
LookupIsNone(op) ==
  \/ op = "applyPreviousVersion" /\ (~HeadInChain \/ Before = {})
  \/ op = "applyNextVersion" /\ (~HeadInChain \/ After = {})
  \/ op \in {"applyInitialVersion", "applyLatestVersion"} /\ Len(Chain) = 0

\* C15: applyPreviousVersion, applyNextVersion, applyInitialVersion and
\* applyLatestVersion, called when there is no previous, next, first or last
\* identifier, return null, raise nothing and leave the source file, the
\* head file and the history directory as they were.
C15_ApplyOfNoneIsNoOp ==
  [][LookupIsNone(last'.op) =>
       /\ ~last'.threw /\ last'.res = Null
       /\ UNCHANGED <<source, head, history>>
    ]_vars

\* applyPreviousVersion has returned null with the Head Pointer on the first
\* of several entries
C15_Witness ==
  /\ last.op = "applyPreviousVersion" /\ last.res = Null /\ ~last.threw
  /\ Len(Chain) >= 2 /\ HeadPointer = Chain[1] /\ last.from = head

\* applyLatestVersion has returned null for the empty chain
C15_WitnessEmpty ==
  /\ last.op = "applyLatestVersion" /\ last.res = Null /\ ~last.threw
  /\ Len(Chain) = 0

\* C16: getSourceFromVersion(v) yields null for every identifier v that is
\* not in the History Chain, and for every v when the Head Pointer is none,
\* a Version Record left by a save whose write of the head file failed
\* included.
C16_ReconstructNotFound ==
  \A v \in Version :
    (HeadPointer = NullStr \/ ~Includes(Chain, v)) =>
      getSourceFromVersion(mode, head, history, source, v) = Value(Null)

\* C17: getCurrentVersion returns null as long as no saveNewVersion has
\* written a version (no applyVersionToSource can apply one before); after
\* that it returns the identifier the head file stores.
C17_CurrentVersionIsHead ==
  [][last'.op = "getCurrentVersion" =>
       /\ ~last'.threw
       /\ last'.res = IF minted = 0 THEN NullStr ELSE head.version
    ]_vars

\* C18: a getCurrentVersion called while the head file cannot be read
\* returns null, and a getHistoryVersions called while the history directory
\* cannot be listed returns the empty list; neither raises.
C18_ReadFaultsAreNotFatal ==
  [][unreadable' = unreadable =>
       /\ (last'.op = "getCurrentVersion" /\ "head" \in unreadable)
            => ~last'.threw /\ last'.res = NullStr
       /\ (last'.op = "getHistoryVersions" /\ "history" \in unreadable)
            => ~last'.threw /\ last'.res = <<>>
    ]_vars

\* C19: on one and the same persisted state (source file, head file,
\* history directory) getSourceFromVersion of the blocking class and of the
\* suspending class yield the same result for every identifier.
C19_VariantsAgree ==
  \A v \in Version :
    getSourceFromVersionSync(head, history, source, v)
      = getSourceFromVersionAsync(head, history, source, v)

ReadOnly == {"getCurrentVersion", "getHistoryVersions", "getPreviousVersion",
             "getNextVersion", "getSourceFromVersion", "getInitialVersion",
             "getLatestVersion"}
Mutators == {"saveNewVersion", "applyVersionToSource", "applyPreviousVersion",
             "applyNextVersion", "applyInitialVersion", "applyLatestVersion"}

\* C20: a call of one of the seven read-only operations leaves the source
\* file, the head file and the history directory as they were, and a step
\* that changes the source file is a saveNewVersion or one of the apply*
\* calls.
C20_ReadsChangeNothing ==
  [][/\ last'.op \in ReadOnly => UNCHANGED <<source, head, history>>
     /\ source' # source => last'.op \in Mutators
    ]_vars

\* getSourceFromVersion has returned a document that is not the one in the
\* source file, and the source file still equals the document the head
\* version was saved with
C20_Witness ==
  /\ last.op = "getSourceFromVersion" /\ last.res # Null
  /\ Len(Chain) >= 2
  /\ last.res # source /\ source = saved[HeadPointer]

\* the outcome of a saveNewVersion(targetJson) of the blocking class, in one
\* step: the diff file of some identifier holds the delta (delta), the head
\* file names it (hd), the source file holds the target (src)
SaveOutcome(targetJson, delta, hd, src) ==
  \E t \in Ticks :
    LET diff == calculateDiff(SourceForSave(mode, source), targetJson)
    IN /\ history' = IF delta
                       THEN writeJsonFile(history, DiffFileName(String(t)), diff)
                       ELSE history
       /\ head' = IF hd THEN HeadOf(String(t)) ELSE head
       /\ source' = IF src THEN targetJson ELSE source

\* C21: saveNewVersion writes the diff file, then the head file, then the
\* source file.  A write that fails ends the call: the blocking class raises,
\* the suspending class returns null; what was written stays.  So a failed
\* call leaves nothing written, or the diff file only, or the diff file and
\* the head file, and only a call that returns the document has written
\* all three.
C21_SaveWritesInOrder ==
  [][/\ (mode = "sync" /\ last'.op = "saveNewVersion") =>
          \/ /\ ~last'.threw /\ last'.res = Null
             /\ UNCHANGED <<source, head, history>>
          \/ /\ ~last'.threw /\ last'.res = last'.arg
             /\ SaveOutcome(last'.arg, TRUE, TRUE, TRUE)
          \/ /\ last'.threw
             /\ \/ SaveOutcome(last'.arg, FALSE, FALSE, FALSE)
                \/ SaveOutcome(last'.arg, TRUE, FALSE, FALSE)
                \/ SaveOutcome(last'.arg, TRUE, TRUE, FALSE)
     /\ \A p \in Slots :
          (calls[p].op = "saveNewVersion" /\ calls'[p] # calls[p]) =>
            LET c == calls[p]
                version == String(c.timestamp)
                diff == calculateDiff(c.sourceObj, c.targetJson)
                went == calls'[p].pc
                reported == /\ went = "idle" /\ ~last'.threw /\ last'.res = Null
                            /\ last'.op = "saveNewVersion"
                            /\ UNCHANGED <<source, head, history>>
            IN CASE c.pc = "diff" -> UNCHANGED <<source, head, history>>
                 [] c.pc = "writeDiff" ->
                      \/ reported
                      \/ /\ went = "writeHead"
                         /\ history' = writeJsonFile(history, DiffFileName(version), diff)
                         /\ UNCHANGED <<source, head>>
                 [] c.pc = "writeHead" ->
                      /\ DiffFileName(version) \in DOMAIN history
                      /\ \/ reported
                         \/ /\ went = "writeSource"
                            /\ head' = HeadOf(version)
                            /\ UNCHANGED <<source, history>>
                 [] c.pc = "writeSource" ->
                      /\ DiffFileName(version) \in DOMAIN history
                      /\ \/ reported
                         \/ /\ went = "idle" /\ last'.res = c.targetJson
                            /\ source' = c.targetJson
                            /\ UNCHANGED <<head, history>>
    ]_vars

\* a saveNewVersion of the blocking class has raised after writing the diff
\* file and the head file: the head names the new version, the source file
\* holds the old document
C21_Witness ==
  /\ mode = "sync" /\ last.op = "saveNewVersion" /\ last.threw
  /\ head # last.from /\ HeadPointer = String(now)
  /\ DiffFileName(HeadPointer) \in DOMAIN history
  /\ source # last.arg /\ saved[HeadPointer] = last.arg

\* a saveNewVersion of the suspending class has returned null after writing
\* the diff file only
C21_WitnessDeltaOnly ==
  /\ mode = "async" /\ last.op = "saveNewVersion" /\ last.res = Null
  /\ \A p \in Slots : calls[p].op = "idle"
  /\ started = 1 /\ Len(Chain) = 1 /\ HeadPointer = NullStr
  /\ source = EmptyObject

\* no call of the suspending class is in flight
Quiescent == \A p \in Slots : calls[p].op = "idle"

\* C22: in the suspending class a save advances the Head Pointer one await
\* before it writes the source file.  Every step in which a save writes the
\* head file, the source file being as the save read it, ends in a state
\* another call can observe, where the Head Pointer names the save's
\* identifier and the source file does not hold the document saved under it.
\* C22_Witness and C22_WitnessDuring are such states with two calls
\* overlapping: after both have returned, and while one is in flight.
C22_HeadAdvancesBeforeSnapshot ==
  [][\A p \in Slots :
       (/\ calls[p].op = "saveNewVersion" /\ calls[p].pc = "writeHead"
        /\ calls'[p].pc = "writeSource"
        /\ source = calls[p].sourceObj)
         => /\ HeadPointer' = String(calls[p].timestamp)
            /\ Includes(getHistoryVersions(history'), HeadPointer')
            /\ source' # calls[p].targetJson
    ]_vars

\* two overlapping saves have both returned their documents, no identifier
\* was minted twice, and the source file does not hold the document saved
\* under the identifier the Head Pointer names
C22_Witness ==
  /\ mode = "async" /\ Quiescent /\ started = 2
  /\ NoCollision /\ Len(Chain) = 2
  /\ last.op = "saveNewVersion" /\ last.res # Null
  /\ HeadInChain /\ source # saved[HeadPointer]
  /\ source = saved[IF HeadPointer = Chain[1] THEN Chain[2] ELSE Chain[1]]

\* a save has written the head file and not yet the source file while an
\* applyVersionToSource is in flight
C22_WitnessDuring ==
  \E p \in Slots, q \in Slots :
    /\ calls[p].op = "saveNewVersion" /\ calls[p].pc = "writeSource"
    /\ calls[q].op = "applyVersionToSource"
    /\ HeadPointer = String(calls[p].timestamp)
    /\ source # saved[HeadPointer]

\* the Document Snapshots of the states that differ from this one in the
\* source file only and that the program reaches as well: where a save of
\* the blocking class has raised at its write of the source file, the
\* document it would have written; where a save of the suspending class is
\* about to write the source file, the document it writes
TwinSnapshots ==
  {last.arg : x \in {y \in {1} : /\ mode = "sync" /\ last.op = "saveNewVersion"
                                 /\ last.threw /\ head # last.from}}
  \cup {calls[p].targetJson :
          p \in {q \in Slots : /\ calls[q].op = "saveNewVersion"
                               /\ calls[q].pc = "writeSource"}}

\* C23: two states with the same History Chain, the same deltas and the same
\* Head Pointer, not none, that differ in the document the source file
\* holds give the same getSourceFromVersion(v) for every identifier v.
C23_ReconstructIgnoresSnapshot ==
  (HeadPointer # NullStr /\ readJsonFile(source) # Null) =>
    \A d \in TwinSnapshots, v \in Version :
      getSourceFromVersion(mode, head, history, source, v)
        = getSourceFromVersion(mode, head, history, d, v)

\* C24: a saveNewVersion that succeeds while the Head Pointer names an entry
\* of the History Chain that is not the last (an apply* call has moved it
\* back) adds a record whose delta is the difference between the source file
\* the apply left and the target; the record's identifier is the last entry
\* of the chain and the Head Pointer; every record there was is still there
\* with its delta.
C24_AppendAfterRevert ==
  [][(HeadInChain /\ After # {} /\ SaveSucceeds) =>
       LET historyVersions == getHistoryVersions(history')
           version == historyVersions[Len(historyVersions)]
       IN /\ head' = HeadOf(version)
          /\ DiffFileName(version) \notin DOMAIN history
          /\ history'[DiffFileName(version)] = calculateDiff(source, last'.arg)
          /\ \A n \in DOMAIN history :
               n \in DOMAIN history' /\ history'[n] = history[n]
    ]_vars

\* a name made of the prefix, one or more decimal digits and .diff
IsVersionFile(n) ==
  /\ n.prefix = "diff_" /\ n.ext = ".diff"
  /\ Len(n.stem) >= 1
  /\ \A i \in 1..Len(n.stem) :
       n.stem[i] \in {"0", "1", "2", "3", "4", "5", "6", "7", "8", "9"}

\* C25: getHistoryVersions returns, without raising, the digits of exactly
\* the names in the history directory made of the prefix, digits and .diff,
\* each once, in ascending order of their numbers; the empty list when no
\* name is of that form.
C25_ListIsNumericAndExact ==
  [][(last'.op = "getHistoryVersions" /\ history' = history) =>
       LET versions == last'.res
       IN /\ ~last'.threw
          /\ {versions[i] : i \in 1..Len(versions)}
               = {n.stem : n \in {m \in DOMAIN history : IsVersionFile(m)}}
          /\ \A i \in 1..Len(versions), j \in 1..Len(versions) :
               i < j => ToNumber(versions[i]) < ToNumber(versions[j])
    ]_vars

\* getHistoryVersions has returned "9" before "10" from a directory that
\* also holds the three foreign names
C25_Witness ==
  /\ last.op = "getHistoryVersions"
  /\ Len(last.res) >= 2 /\ last.res[1] = <<"9">> /\ last.res[2] = <<"1", "0">>
  /\ ForeignNames \subseteq DOMAIN history

\* getHistoryVersions has returned the empty list from a directory that
\* holds foreign names only
C25_WitnessEmpty ==
  /\ last.op = "getHistoryVersions" /\ last.res = <<>>
  /\ ForeignNames \subseteq DOMAIN history
  /\ Cardinality(DOMAIN history) = Cardinality(ForeignNames)

\* C26: once the head file names an identifier, it names an identifier (a
\* string of digits) in every later state: no step, a failed write, a call
\* that finds nothing and a step of an overlapping call included, resets it
\* to none.
C26_HeadIsNeverReset ==
  [][HeadPointer # NullStr =>
       /\ HeadPointer' # NullStr
       /\ \A i \in 1..Len(HeadPointer') : IsDigit(HeadPointer'[i])
    ]_vars

\* after a save has set the Head Pointer, an applyVersionToSource of an
\* identifier that names no record has returned null and the Head Pointer
\* still names the saved version
C26_Witness ==
  /\ last.op = "applyVersionToSource" /\ last.res = Null /\ ~last.threw
  /\ ~Includes(Chain, last.arg)
  /\ HeadPointer # NullStr /\ Includes(Chain, HeadPointer)

====
